---------------------------- MODULE Spec2Model ----------------------------
(***************************************************************************)
(* A model of src/src/ipv4.rs (crate ipnetwork): the value type            *)
(* Ipv4Network, its derived arithmetic, its address iterator and its CIDR  *)
(* text conversions.                                                       *)
(*                                                                         *)
(* Machine integers are bit vectors: an N-bit unsigned integer is a        *)
(* function from 0..N-1 to {0, 1}, bit 0 the least significant.  An        *)
(* Ipv4Addr is its four octets, most significant first.  Text is a         *)
(* sequence of one-character strings.                                      *)
(***************************************************************************)
EXTENDS Integers, Sequences, FiniteSets, TLC

VARIABLES net, it, call, res, fault

vars == <<net, it, call, res, fault>>

---------------------------------------------------------------------------
(* Program constants and integer widths.                                   *)

IPV4_BITS == 32

U8_MAX == 255

W32 == 32

W64 == 64

---------------------------------------------------------------------------
(* Option / Result values.                                                 *)

None == [tag |-> "None"]

Some(v) == [tag |-> "Some", val |-> v]

Ok(v) == [tag |-> "Ok", val |-> v]

Err(e) == [tag |-> "Err", err |-> e]

\* IpNetworkError::InvalidAddr(String): the message and the text it quotes.
InvalidAddr(msg, addr) == [tag |-> "Err", err |-> "InvalidAddr", msg |-> <<msg, addr>>]

Panic == [tag |-> "Panic"]

---------------------------------------------------------------------------
(* Primitive integer operations of the language, at their widths.          *)

Pow2(k) == 2 ^ k

\* u32::from(Ipv4Addr): the octets, most significant first, as one u32.
U32FromAddr(a) == [i \in 0..(W32 - 1) |-> (a[4 - (i \div 8)] \div Pow2(i % 8)) % 2]

OctetOf(b, k) == b[8 * k] + 2 * b[8 * k + 1] + 4 * b[8 * k + 2] + 8 * b[8 * k + 3]
                 + 16 * b[8 * k + 4] + 32 * b[8 * k + 5] + 64 * b[8 * k + 6]
                 + 128 * b[8 * k + 7]

\* Ipv4Addr::from(u32): the four octets of a u32, most significant first.
AddrFromU32(b) == <<OctetOf(b, 3), OctetOf(b, 2), OctetOf(b, 1), OctetOf(b, 0)>>

\* The literal 0xffffffff.
AllOnes32 == [i \in 0..(W32 - 1) |-> 1]

\* `x as u64` of a u32: zero extension.
AsU64(x) == [i \in 0..(W64 - 1) |-> IF i < W32 THEN x[i] ELSE 0]

\* `x as u32` of a u64: the low 32 bits.
AsU32(x) == [i \in 0..(W32 - 1) |-> x[i]]

\* `x >> s` on u64.  A shift amount >= 64 is an overflow: a panic in a
\* checked build, the amount taken modulo 64 otherwise.
ShrOverflows(s) == s >= W64

Shr64(x, s) == [i \in 0..(W64 - 1) |-> IF i + (s % W64) < W64 THEN x[i + (s % W64)] ELSE 0]

Not64(x) == [i \in 0..(W64 - 1) |-> 1 - x[i]]

Not32(x) == [i \in 0..(W32 - 1) |-> 1 - x[i]]

And32(x, y) == [i \in 0..(W32 - 1) |-> x[i] * y[i]]

Or32(x, y) == [i \in 0..(W32 - 1) |-> IF x[i] + y[i] > 0 THEN 1 ELSE 0]

\* The bits of x + y from position i up, given the carry c into position
\* i, least significant first, followed by the carry out of position w - 1.
RECURSIVE SumBits(_, _, _, _, _)
SumBits(x, y, i, c, w) ==
    IF i = w THEN <<c>>
    ELSE <<(x[i] + y[i] + c) % 2>> \o SumBits(x, y, i + 1, (x[i] + y[i] + c) \div 2, w)

\* x + y on w bits, wrapped.
AddW(x, y, w) ==
    LET s == SumBits(x, y, 0, 0, w)
    IN  [i \in 0..(w - 1) |-> s[i + 1]]

AddOverflows(x, y, w) == SumBits(x, y, 0, 0, w)[w + 1] = 1

\* x < y on the bits 0..i of two unsigned integers.
RECURSIVE LtFrom(_, _, _)
LtFrom(x, y, i) ==
    IF i < 0 THEN FALSE
    ELSE IF x[i] # y[i] THEN x[i] < y[i]
    ELSE LtFrom(x, y, i - 1)

\* x < y on w-bit unsigned integers.
LtW(x, y, w) == LtFrom(x, y, w - 1)

One64 == [i \in 0..(W64 - 1) |-> IF i = 0 THEN 1 ELSE 0]

\* a - b on u8: an underflow is a panic in a checked build and wraps
\* otherwise.
U8SubOverflows(a, b) == a < b

U8Sub(a, b) == (a - b + U8_MAX + 1) % (U8_MAX + 1)

\* (2 as u64).pow(e): overflows u64 when e >= 64, and wraps to 0 then.
PowOverflows(e) == e >= W64

Pow2U64(e) == [i \in 0..(W64 - 1) |-> IF i = e THEN 1 ELSE 0]

---------------------------------------------------------------------------
(* Ipv4Network.                                                            *)

\* struct Ipv4Network { addr, prefix }
Ipv4Network(a, p) == [addr |-> a, prefix |-> p]

\* derive(PartialEq) on Ipv4Network: both fields equal.
eq(x, y) == x.addr = y.addr /\ x.prefix = y.prefix

\* new rejecting the prefix 32 as well.
new_ge(a, p) ==
    IF p >= IPV4_BITS
    THEN Err("InvalidPrefix")
    ELSE Ok(Ipv4Network(a, p))

\* new without the validation of the prefix.
new_unchecked(a, p) == Ok(Ipv4Network(a, p))

new(a, p) ==
    IF p > IPV4_BITS
    THEN Err("InvalidPrefix")
    ELSE Ok(Ipv4Network(a, p))

ip(self) == self.addr

prefix(self) == self.prefix

\* mask with the shift done on 32 bits: !(0xffffffff >> prefix), where a
\* shift by 32 is a shift by 0.
mask_u32(self) ==
    LET p == self.prefix
        m == [i \in 0..(W32 - 1) |-> IF i + (p % W32) < W32 THEN 0 ELSE 1]
    IN  <<AddrFromU32(m), m>>

mask(self) ==
    LET p == self.prefix
        m == AsU32(Not64(Shr64(AsU64(AllOnes32), p)))
    IN  <<AddrFromU32(m), m>>

maskFaults(self) == ShrOverflows(self.prefix)

network(self) ==
    LET m == mask(self)[2]
        a == And32(U32FromAddr(self.addr), m)
    IN  <<AddrFromU32(a), a>>

\* broadcast ORing the mask itself instead of its complement.
broadcast_mask(self) ==
    LET m == mask(self)[2]
        b == Or32(U32FromAddr(self.addr), m)
    IN  <<AddrFromU32(b), b>>

broadcast(self) ==
    LET m == mask(self)[2]
        b == Or32(U32FromAddr(self.addr), Not32(m))
    IN  <<AddrFromU32(b), b>>

\* contains comparing with the stored address instead of the network.
contains_stored(self, a) ==
    LET m == mask(self)[2]
    IN  And32(U32FromAddr(a), m) = U32FromAddr(self.addr)

contains(self, a) ==
    LET n == network(self)[2]
        m == mask(self)[2]
    IN  And32(U32FromAddr(a), m) = n

\* size computed on 32 bits and widened afterwards.
size_u32(self) ==
    LET host_bits == U8Sub(IPV4_BITS, self.prefix)
    IN  AsU64([i \in 0..(W32 - 1) |-> IF i = host_bits THEN 1 ELSE 0])

size(self) ==
    LET host_bits == U8Sub(IPV4_BITS, self.prefix)
    IN  Pow2U64(host_bits)

sizeFaults(self) ==
    \/ U8SubOverflows(IPV4_BITS, self.prefix)
    \/ PowOverflows(U8Sub(IPV4_BITS, self.prefix))

\* nth accepting n = size() as well.
nth_le(self, n) ==
    IF LtW(AsU64(n), size(self), W64) \/ AsU64(n) = size(self)
    THEN Some(AddrFromU32(AddW(network(self)[2], n, W32)))
    ELSE None

\* n is a u32.
nth(self, n) ==
    IF LtW(AsU64(n), size(self), W64)
    THEN Some(AddrFromU32(AddW(network(self)[2], n, W32)))
    ELSE None

nthFaults(self, n) ==
    \/ sizeFaults(self)
    \/ /\ LtW(AsU64(n), size(self), W64)
       /\ maskFaults(self) \/ AddOverflows(network(self)[2], n, W32)

\* struct Ipv4NetworkIterator { next, end }
Ipv4NetworkIterator(n, e) == [next |-> n, end |-> e]

\* iter with the end computed on 32 bits.
iter_u32(self) ==
    LET start == network(self)[2]
        end == AddW(start, AsU32(size(self)), W32)
    IN  Ipv4NetworkIterator(AsU64(start), AsU64(end))

iter(self) ==
    LET start == network(self)[2]
        end == AddW(AsU64(start), size(self), W64)
    IN  Ipv4NetworkIterator(AsU64(start), end)

iterFaults(self) ==
    \/ maskFaults(self)
    \/ sizeFaults(self)
    \/ AddOverflows(AsU64(network(self)[2]), size(self), W64)

\* Iterator::next: <<returned item, iterator afterwards>>.
next(i) ==
    IF LtW(i.next, i.end, W64)
    THEN <<Some(AddrFromU32(AsU32(i.next))),
           Ipv4NetworkIterator(AddW(i.next, One64, W64), i.end)>>
    ELSE <<None, i>>

nextFaults(i) == LtW(i.next, i.end, W64) /\ AddOverflows(i.next, One64, W64)

---------------------------------------------------------------------------
(* Text: CIDR parsing and display.                                         *)

Digits == <<"0", "1", "2", "3", "4", "5", "6", "7", "8", "9">>

IsDigit(c) == \E d \in 1..Len(Digits) : Digits[d] = c

DigitVal(c) == (CHOOSE d \in 1..Len(Digits) : Digits[d] = c) - 1

\* str::parse::<u8>: an optional '+', then one or more decimal digits,
\* accumulated with checked u8 multiplication and addition.
RECURSIVE ParseDigitsU8(_, _)
ParseDigitsU8(s, acc) ==
    IF s = <<>> THEN Ok(acc)
    ELSE IF ~IsDigit(Head(s)) THEN Err("InvalidDigit")
    ELSE IF acc * 10 > U8_MAX THEN Err("Overflow")
    ELSE IF acc * 10 + DigitVal(Head(s)) > U8_MAX THEN Err("Overflow")
    ELSE ParseDigitsU8(Tail(s), acc * 10 + DigitVal(Head(s)))

\* parse::<u8> with wrapping instead of checked arithmetic.
RECURSIVE ParseDigitsWrapping(_, _)
ParseDigitsWrapping(s, acc) ==
    IF s = <<>> THEN Ok(acc)
    ELSE IF ~IsDigit(Head(s)) THEN Err("InvalidDigit")
    ELSE ParseDigitsWrapping(Tail(s), (acc * 10 + DigitVal(Head(s))) % (U8_MAX + 1))

ParseU8Wrapping(s) ==
    IF s = <<>> THEN Err("Empty")
    ELSE LET digits == IF Head(s) = "+" THEN Tail(s) ELSE s
         IN  IF digits = <<>> THEN Err("Empty") ELSE ParseDigitsWrapping(digits, 0)

ParseU8(s) ==
    IF s = <<>> THEN Err("Empty")
    ELSE LET digits == IF Head(s) = "+" THEN Tail(s) ELSE s
         IN  IF digits = <<>> THEN Err("Empty") ELSE ParseDigitsU8(digits, 0)

\* str::split(c): the pieces between the occurrences of c (at least one).
RECURSIVE Split(_, _)
Split(s, c) ==
    IF \A i \in 1..Len(s) : s[i] # c THEN <<s>>
    ELSE LET k == CHOOSE i \in 1..Len(s) :
                      s[i] = c /\ \A j \in 1..(i - 1) : s[j] # c
         IN  <<SubSeq(s, 1, k - 1)>> \o Split(SubSeq(s, k + 1, Len(s)), c)

\* The loop of parse_addr over the enumerated segments of addr, from the
\* i-th on.
RECURSIVE ParseAddrLoop(_, _, _, _)
ParseAddrLoop(addr, parts, i, bytes) ==
    IF i > Len(parts) THEN Ok(bytes)
    ELSE IF i - 1 >= 4 THEN InvalidAddr("More than 4 bytes: ", addr)
    ELSE LET byte == ParseU8(parts[i])
         IN  IF byte.tag = "Err" THEN InvalidAddr("All bytes not 0-255: ", addr)
             ELSE ParseAddrLoop(addr, parts, i + 1, [bytes EXCEPT ![i] = byte.val])

parse_addr(s) == ParseAddrLoop(s, Split(s, "."), 1, <<0, 0, 0, 0>>)

\* common::cidr_parts: the text around its single '/'.
cidr_parts(s) ==
    LET parts == Split(s, "/")
    IN  IF Len(parts) = 2 THEN Ok(<<parts[1], parts[2]>>)
        ELSE Err("CidrFormat")

RECURSIVE DecimalValue(_, _)
DecimalValue(s, acc) ==
    IF s = <<>> THEN acc ELSE DecimalValue(Tail(s), acc * 10 + DigitVal(Head(s)))

\* common::parse_prefix: a plain decimal number of at most `max`.
parse_prefix(s, max) ==
    IF s = <<>> \/ \E i \in 1..Len(s) : ~IsDigit(s[i]) THEN Err("InvalidPrefix")
    ELSE IF DecimalValue(s, 0) > max THEN Err("InvalidPrefix")
    ELSE Ok(DecimalValue(s, 0))

from_cidr(s) ==
    LET parts == cidr_parts(s)
    IN  IF parts.tag = "Err" THEN parts
        ELSE LET a == parse_addr(parts.val[1])
             IN  IF a.tag = "Err" THEN a
                 ELSE LET p == parse_prefix(parts.val[2], IPV4_BITS)
                      IN  IF p.tag = "Err" THEN p
                          ELSE new(a.val, p.val)

\* Display of an integer: its decimal digits, no sign, no leading zero.
RECURSIVE DecText(_)
DecText(n) ==
    IF n < 10 THEN <<Digits[n + 1]>>
    ELSE DecText(n \div 10) \o <<Digits[(n % 10) + 1]>>

\* Display of an Ipv4Addr: "a.b.c.d".
AddrText(a) ==
    DecText(a[1]) \o <<".">> \o DecText(a[2]) \o <<".">> \o DecText(a[3])
        \o <<".">> \o DecText(a[4])

\* Display of the network address instead of the stored one.
to_string_network(self) == AddrText(network(self)[1]) \o <<"/">> \o DecText(prefix(self))

\* impl Display for Ipv4Network: "{ip}/{prefix}".
to_string(self) == AddrText(ip(self)) \o <<"/">> \o DecText(prefix(self))

---------------------------------------------------------------------------
(* Inputs.                                                                 *)

\* Stored addresses handed to new: those of the tests and the two ends of
\* the address space.
AddrSamples ==
    { <<0, 0, 0, 0>>, <<255, 255, 255, 255>>, <<10, 1, 1, 1>>,
      <<192, 168, 122, 0>>, <<10, 10, 1, 97>>, <<74, 125, 227, 0>>,
      <<10, 0, 0, 50>>, <<172, 16, 254, 255>> }

\* The address a with bit i (0 the least significant) inverted.
FlipBit(a, i) ==
    LET k == 4 - (i \div 8)
        w == Pow2(i % 8)
    IN  [a EXCEPT ![k] = IF (a[k] \div w) % 2 = 1 THEN a[k] - w ELSE a[k] + w]

\* Candidates for contains: the samples, and every address one bit away
\* from the stored one.
Candidates(self) == AddrSamples \cup { FlipBit(self.addr, i) : i \in 0..(W32 - 1) }

\* Offsets for nth: 2^k - 1 and 2^k for every k, and u32::MAX.
Offsets ==
    { [i \in 0..(W32 - 1) |-> IF i = k THEN 1 ELSE 0] : k \in 0..(W32 - 1) }
        \cup { [i \in 0..(W32 - 1) |-> IF i < k THEN 1 ELSE 0] : k \in 0..W32 }

\* The CIDR texts of the tests and of the documentation.
TestTexts ==
    { to_string(Ipv4Network(<<10, 1, 9, 32>>, 16)),
      to_string(Ipv4Network(<<192, 168, 122, 0>>, 30)),
      to_string(Ipv4Network(<<10, 1, 1, 1>>, 24)),
      to_string(Ipv4Network(<<127, 0, 0, 0>>, 32)),
      <<"0", "/", "0">>, <<"1", "0", "/", "3", "2">>, <<"0", "/", "3", "1">>,
      <<"0", "/", "3", "9">>, <<"2", "5", "6", "/", "8">>,
      <<"1", "0", ".", "a", ".", "b", "/", "8">>,
      <<"1", "0", ".", "1", ".", "1", ".", "1", ".", "0", "/", "8">> }

\* Texts without a '/' and with two.
MalformedTexts ==
    { <<"1", "0">>, <<>>, <<"1", "0", ".", "0", ".", "0", ".", "0">>,
      <<"1", "0", "/", "8", "/", "8">>, <<"/", "/">>, <<"1", "0", "/", "/", "8">> }

\* Segment texts the address part is put together from: in range, out of
\* range, empty and not a number.
SegSamples ==
    { <<"0">>, <<"1", "0">>, <<"2", "5", "5">>, <<"2", "5", "6">>, <<>>, <<"a">> }

\* Segment texts with a sign, leading zeros or more digits than a byte has.
OddSegSamples ==
    { <<"+", "1">>, <<"+">>, <<"-", "1">>, <<"0", "0", "7">>, <<"0", "2", "5", "6">>,
      <<"1", "0", "0", "0">>, <<"9", "9", "9">>, <<"1", " ">>, <<"2", "6", "0">> }

\* Prefix texts: valid, too large, not a number.
PrefixSamples ==
    { <<"0">>, <<"2", "4">>, <<"3", "2">>, <<"3", "3">>, <<"x">> }

\* Bound on the number of '.'-separated segments of a generated address.
MaxSegs == 5

RECURSIVE SegLists(_, _)
SegLists(S, k) ==
    IF k = 0 THEN {<<>>}
    ELSE { <<x>> \o l : x \in S, l \in SegLists(S, k - 1) }

\* The segment lists of generated addresses: every list of 1..n sampled
\* segments, and the lists of 1..2 segments with an odd one.
GenSegLists(n) ==
    UNION { SegLists(SegSamples, k) : k \in 1..n }
        \cup UNION { SegLists(SegSamples \cup OddSegSamples, k) : k \in 1..2 }

RECURSIVE JoinDots(_)
JoinDots(l) ==
    IF Len(l) = 1 THEN l[1] ELSE l[1] \o <<".">> \o JoinDots(Tail(l))

---------------------------------------------------------------------------
(* The state machine: one network is constructed, then operated on.        *)

NoNet == [tag |-> "NoNet"]

NoIter == [tag |-> "NoIter"]

Call(op, par) == [op |-> op, par |-> par]

NoCall == Call("none", <<>>)

\* Bound on the number of next() calls on one iterator.
MaxCalls == 6

Init ==
    /\ net = NoNet
    /\ it = NoIter
    /\ call = NoCall
    /\ res = None
    /\ fault = FALSE

\* A network has just been constructed.
Fresh == net # NoNet /\ call.op \in {"new", "from_cidr"}

\* The result of a call that yields v and whose arithmetic overflowed iff
\* f: an overflow panics in a checked build and wraps in an unchecked one.
Outcomes(f, v) == IF f THEN {Panic, v} ELSE {v}

Construct(op, par, r) ==
    /\ call' = Call(op, par)
    /\ res' = r
    /\ net' = IF r.tag = "Ok" THEN r.val ELSE NoNet
    /\ UNCHANGED <<it, fault>>

New ==
    /\ call = NoCall
    /\ \E a \in AddrSamples, p \in 0..U8_MAX : Construct("new", <<a, p>>, new(a, p))

FromCidr ==
    /\ call = NoCall
    /\ \E s \in TestTexts \cup MalformedTexts :
          Construct("from_cidr", [text |-> s], from_cidr(s))

\* from_cidr on the text of the segments l joined with '.', a '/' and the
\* prefix text p; what the text was put together from is kept in the call.
FromCidrGen ==
    /\ call = NoCall
    /\ \E l \in GenSegLists(MaxSegs), p \in PrefixSamples :
          LET s == JoinDots(l) \o <<"/">> \o p
          IN  Construct("from_cidr", [text |-> s, segs |-> l, ptext |-> p], from_cidr(s))

\* A plain value returned by the operation op.
Ret(op, v) == [tag |-> op, val |-> v]

Query(op, par, f, r) ==
    /\ Fresh
    /\ call' = Call(op, par)
    /\ res' \in Outcomes(f, r)
    /\ fault' = (fault \/ f)
    /\ UNCHANGED <<net, it>>

Ip == Query("ip", <<>>, FALSE, Ret("ip", ip(net)))

Prefix == Query("prefix", <<>>, FALSE, Ret("prefix", prefix(net)))

Mask == Query("mask", <<>>, maskFaults(net), Ret("mask", mask(net)))

Network == Query("network", <<>>, maskFaults(net), Ret("network", network(net)))

Broadcast == Query("broadcast", <<>>, maskFaults(net), Ret("broadcast", broadcast(net)))

Size == Query("size", <<>>, sizeFaults(net), Ret("size", size(net)))

Contains ==
    /\ Fresh
    /\ \E a \in Candidates(net) :
          Query("contains", a, maskFaults(net), Ret("contains", contains(net, a)))

Nth ==
    /\ Fresh
    /\ \E n \in Offsets : Query("nth", n, nthFaults(net, n), nth(net, n))

Display == Query("to_string", <<>>, FALSE, Ret("to_string", to_string(net)))

\* from_cidr on the text that to_string has just returned.
Reparse ==
    /\ call.op = "to_string"
    /\ call' = Call("reparse", res.val)
    /\ res' = from_cidr(res.val)
    /\ UNCHANGED <<net, it, fault>>

Iter ==
    /\ Fresh
    /\ call' = Call("iter", <<>>)
    /\ \E r \in Outcomes(iterFaults(net), Ret("iter", iter(net))) :
          /\ res' = r
          /\ it' = IF r = Panic THEN NoIter ELSE r.val
    /\ fault' = (fault \/ iterFaults(net))
    /\ UNCHANGED net

\* The k-th call of next() on the iterator.
IterNext ==
    /\ it # NoIter
    /\ res # Panic
    /\ LET k == IF call.op = "next" THEN call.par + 1 ELSE 1
       IN  /\ k <= MaxCalls
           /\ call' = Call("next", k)
    /\ \E r \in Outcomes(nextFaults(it), next(it)[1]) :
          /\ res' = r
          /\ it' = IF r = Panic THEN it ELSE next(it)[2]
    /\ fault' = (fault \/ nextFaults(it))
    /\ UNCHANGED net

Next ==
    \/ New
    \/ FromCidr
    \/ Ip
    \/ Prefix
    \/ Mask
    \/ Network
    \/ Broadcast
    \/ Size
    \/ Contains
    \/ Nth
    \/ Display
    \/ Iter
    \/ IterNext

Spec == Init /\ [][Next]_vars

\* The text conversions alone, over the generated texts.
NextCidr ==
    \/ New
    \/ FromCidr
    \/ FromCidrGen
    \/ Display
    \/ Reparse

SpecCidr == Init /\ [][NextCidr]_vars

---------------------------------------------------------------------------
(* Numbers in the properties.  A natural number below 2^47 is written      *)
(* <<hi, lo>>, meaning hi * 2^16 + lo with lo < 2^16.                      *)

Base == 2 ^ 16

BigOfNat(n) == <<n \div Base, n % Base>>

BigAdd(x, y) == <<x[1] + y[1] + ((x[2] + y[2]) \div Base), (x[2] + y[2]) % Base>>

BigLt(x, y) == x[1] < y[1] \/ (x[1] = y[1] /\ x[2] < y[2])

BigLe(x, y) == x = y \/ BigLt(x, y)

\* 2^k, for k <= 46.
TwoTo(k) == IF k < 16 THEN <<0, 2 ^ k>> ELSE <<2 ^ (k - 16), 0>>

RECURSIVE BitSum(_, _, _)
BitSum(b, lo, hi) ==
    IF lo > hi THEN 0 ELSE b[lo] + 2 * BitSum(b, lo + 1, hi)

\* The number a w-bit vector stands for; <<-1, -1>> when it is 2^47 or more.
Num(b, w) ==
    IF \E i \in 47..(w - 1) : b[i] = 1 THEN <<-1, -1>>
    ELSE <<BitSum(b, 16, IF w > 47 THEN 46 ELSE w - 1), BitSum(b, 0, 15)>>

\* The number an address stands for, from its octets.
AddrNum(a) == <<a[1] * 256 + a[2], a[3] * 256 + a[4]>>

\* The number of host bits of the octet k of an address under a prefix of
\* p bits: 8 when the octet lies after the prefix, 0 when inside it.
HostBitsIn(k, p) ==
    IF 8 * k <= p THEN 0 ELSE IF 8 * (k - 1) >= p THEN 8 ELSE 8 * k - p

\* The lowest and the highest address sharing the top p bits of a.
LowestOf(a, p) == [k \in 1..4 |-> a[k] - (a[k] % (2 ^ HostBitsIn(k, p)))]

HighestOf(a, p) ==
    [k \in 1..4 |-> a[k] - (a[k] % (2 ^ HostBitsIn(k, p))) + (2 ^ HostBitsIn(k, p)) - 1]

\* The addresses a and b agree on their top p bits.
SameTopBits(a, b, p) == LowestOf(a, p) = LowestOf(b, p)

---------------------------------------------------------------------------
(* Properties.                                                             *)

\* C4: after mask() on a network of prefix p, the integer returned has its
\* top p bits set and the other 32 - p clear, which is the number
\* 2^32 - 2^(32 - p) (0 for p = 0, 0xffffffff for p = 32), whatever the
\* stored address; the address returned has the same value.
C4_MaskTopBits ==
    call.op = "mask" =>
        LET p == net.prefix
        IN  /\ \A i \in 0..(W32 - 1) : res.val[2][i] = (IF i >= 32 - p THEN 1 ELSE 0)
            /\ Num(res.val[2], W32) = (IF p <= 16 THEN <<Base - 2 ^ (16 - p), 0>>
                                   ELSE <<Base - 1, Base - 2 ^ (32 - p)>>)
            /\ AddrNum(res.val[1]) = Num(res.val[2], W32)

C4_Witness ==
    /\ call.op = "mask"
    /\ net.prefix = 0
    /\ net.addr = <<255, 255, 255, 255>>
    /\ res.val[1] = <<0, 0, 0, 0>>

\* C6: after size() on a network of prefix p, the result is exactly
\* 2^(32 - p), whatever the stored address: 2^32 at p = 0, 1 at p = 32.
C6_SizeIsPowerOfTwo ==
    call.op = "size" => Num(res.val, W64) = TwoTo(32 - net.prefix)

C6_Witness ==
    /\ call.op = "size"
    /\ net.prefix = 0
    /\ Num(res.val, W64) = <<Base, 0>>

\* C2: contains(candidate) is true iff the candidate and the stored
\* address, each ANDed with the mask, are equal, which is iff they agree on
\* their top `prefix` bits.
C2_ContainsIffSameTopBits ==
    call.op = "contains" =>
        /\ res.val = (And32(U32FromAddr(call.par), mask(net)[2])
                    = And32(U32FromAddr(net.addr), mask(net)[2]))
        /\ res.val = SameTopBits(call.par, net.addr, net.prefix)
        /\ net.prefix = 0 => res.val
        /\ net.prefix = 32 => (res.val = (call.par = net.addr))

C2_Witness ==
    /\ call.op = "contains"
    /\ net = Ipv4Network(<<10, 0, 0, 50>>, 25)
    /\ call.par = <<10, 0, 0, 114>>
    /\ res.val = TRUE

\* C3: network() is the stored address ANDed with the mask and the lowest
\* address of the range, broadcast() is the stored address ORed with the
\* inverted mask and the highest; network <= stored <= broadcast,
\* broadcast - network + 1 = size(), contains(a) holds exactly for
\* network <= a <= broadcast, and the two components of each pair have the
\* same value.
C3_NetworkAndBroadcast ==
    /\ call.op = "network" =>
          /\ res.val[2] = And32(U32FromAddr(net.addr), mask(net)[2])
          /\ res.val[1] = LowestOf(net.addr, net.prefix)
          /\ AddrNum(res.val[1]) = Num(res.val[2], W32)
          /\ BigLe(AddrNum(res.val[1]), AddrNum(net.addr))
    /\ call.op = "broadcast" =>
          /\ res.val[2] = Or32(U32FromAddr(net.addr), Not32(mask(net)[2]))
          /\ res.val[1] = HighestOf(net.addr, net.prefix)
          /\ AddrNum(res.val[1]) = Num(res.val[2], W32)
          /\ BigLe(AddrNum(net.addr), AddrNum(res.val[1]))
          /\ BigAdd(AddrNum(res.val[1]), BigOfNat(1))
                = BigAdd(AddrNum(network(net)[1]), Num(size(net), W64))
    /\ call.op = "contains" =>
          res.val = (BigLe(AddrNum(network(net)[1]), AddrNum(call.par))
                       /\ BigLe(AddrNum(call.par), AddrNum(broadcast(net)[1])))

C3_Witness ==
    /\ call.op = "broadcast"
    /\ net = Ipv4Network(<<10, 10, 1, 97>>, 23)
    /\ res.val[1] = <<10, 10, 1, 255>>
    /\ network(net)[1] = <<10, 10, 0, 0>>

\* The item the k-th call of next() returns on the iterator i.
RECURSIVE ItemOf(_, _)
ItemOf(i, k) == IF k = 1 THEN next(i)[1] ELSE ItemOf(next(i)[2], k - 1)

\* C1: the k-th call of next() on the iterator of a network returns the
\* address network() + (k - 1) while k <= size(), the last of them being
\* broadcast(), and None for every k > size(); the cursor is then
\* network() + min(k, size()), so that it stops at the end and never wraps.
C1_IterEnumeratesRange ==
    call.op = "next" =>
        LET k == call.par
            lo == AddrNum(network(net)[1])
            sz == Num(size(net), W64)
        IN  IF BigLe(BigOfNat(k), sz)
            THEN /\ res.tag = "Some"
                 /\ AddrNum(res.val) = BigAdd(lo, BigOfNat(k - 1))
                 /\ BigLe(AddrNum(res.val), AddrNum(broadcast(net)[1]))
                 /\ BigOfNat(k) = sz => res.val = broadcast(net)[1]
                 /\ Num(it.next, W64) = BigAdd(lo, BigOfNat(k))
            ELSE /\ res = None
                 /\ Num(it.next, W64) = BigAdd(lo, sz)
                 /\ it.next = it.end

C1_Witness ==
    /\ call.op = "next"
    /\ call.par > 5
    /\ net = Ipv4Network(<<255, 255, 255, 255>>, 30)
    /\ res = None
    /\ Num(it.next, W64) = <<Base, 0>>

\* C5: nth(n) returns the address network() + n when n < size() and None
\* otherwise; the address returned is contained in the network, nth(0) is
\* network(), nth(size() - 1) is broadcast(), and nth(n) is what the
\* (n + 1)-th call of next() on iter() returns.
C5_NthIsOffsetFromNetwork ==
    call.op = "nth" =>
        LET n == Num(call.par, W32)
            lo == AddrNum(network(net)[1])
            sz == Num(size(net), W64)
        IN  /\ IF BigLt(n, sz)
               THEN /\ res.tag = "Some"
                    /\ AddrNum(res.val) = BigAdd(lo, n)
                    /\ contains(net, res.val)
                    /\ n = <<0, 0>> => res.val = network(net)[1]
                    /\ BigAdd(n, BigOfNat(1)) = sz => res.val = broadcast(net)[1]
               ELSE res = None
            /\ BigLt(n, BigOfNat(MaxCalls)) => res = ItemOf(iter(net), n[2] + 1)

C5_Witness ==
    /\ call.op = "nth"
    /\ net = Ipv4Network(<<10, 0, 0, 50>>, 16)
    /\ Num(call.par, W32) = <<0, 256>>
    /\ res = Some(<<10, 0, 1, 0>>)

\* C7: new(address, prefix) fails with InvalidPrefix iff prefix > 32;
\* otherwise the network stores both arguments as given, host bits
\* included.  Every network that exists has a prefix <= 32, and a network
\* of the same subnet with other host bits is not equal to it.
C7_NewValidatesAndStoresVerbatim ==
    /\ call.op = "new" =>
          LET a == call.par[1]
              p == call.par[2]
          IN  /\ (res = Err("InvalidPrefix")) = (p > 32)
              /\ p <= 32 =>
                    /\ res.tag = "Ok"
                    /\ ip(res.val) = a
                    /\ prefix(res.val) = p
                    /\ net = res.val
              /\ p > 32 => net = NoNet
    /\ call.op = "ip" => res.val = net.addr
    /\ call.op = "prefix" => res.val = net.prefix
    /\ net # NoNet =>
          /\ net.prefix \in 0..32
          /\ \A b \in Candidates(net) :
                b # net.addr => ~eq(new(b, net.prefix).val, net)

C7_Witness ==
    /\ call.op = "new"
    /\ call.par = <<<<10, 1, 1, 1>>, 24>>
    /\ ip(net) = <<10, 1, 1, 1>>
    /\ network(net)[1] = <<10, 1, 1, 0>>
    /\ ~eq(new(<<10, 1, 1, 0>>, 24).val, net)

\* C8: no derived operation fails on a network obtained from new or
\* from_cidr: 32 - prefix does not underflow, the shift amount of the mask
\* is below 64, network() + n does not overflow 32 bits when n < size(),
\* the end of an iterator is at most 2^32, and a cursor that is emitted is
\* below 2^32, so that narrowing it loses nothing.
C8_DerivedOperationsNeverFail ==
    /\ ~fault
    /\ res # Panic
    /\ net # NoNet =>
          /\ ~U8SubOverflows(IPV4_BITS, net.prefix)
          /\ ~ShrOverflows(net.prefix)
          /\ BigLe(BigAdd(AddrNum(network(net)[1]), Num(size(net), W64)), <<Base, 0>>)
    /\ call.op = "nth" /\ res # None =>
          BigLt(BigAdd(AddrNum(network(net)[1]), Num(call.par, W32)), <<Base, 0>>)
    /\ it # NoIter =>
          /\ BigLe(Num(it.next, W64), Num(it.end, W64))
          /\ BigLe(Num(it.end, W64), <<Base, 0>>)
          /\ LtW(it.next, it.end, W64) => \A i \in W32..(W64 - 1) : it.next[i] = 0
    /\ call.op = "next" /\ res # None =>
          BigAdd(AddrNum(res.val), BigOfNat(1)) = Num(it.next, W64)

C8_Witness ==
    /\ call.op = "next"
    /\ res = Some(<<255, 255, 255, 255>>)
    /\ Num(it.end, W64) = <<Base, 0>>
    /\ it.next = it.end
    /\ ~fault

\* The decimal numeral of a number below 1000, digit by digit.
Numeral(n) ==
    IF n < 10 THEN <<Digits[n + 1]>>
    ELSE IF n < 100 THEN <<Digits[(n \div 10) + 1], Digits[(n % 10) + 1]>>
    ELSE <<Digits[(n \div 100) + 1], Digits[((n \div 10) % 10) + 1], Digits[(n % 10) + 1]>>

\* C9: the display string of a network is "A.B.C.D/prefix" made of its
\* stored fields, and from_cidr of that string succeeds with a network
\* equal to it: same stored address, same prefix.
C9_DisplayRoundTrips ==
    /\ call.op = "to_string" =>
          res.val = Numeral(net.addr[1]) \o <<".">> \o Numeral(net.addr[2]) \o <<".">>
                      \o Numeral(net.addr[3]) \o <<".">> \o Numeral(net.addr[4])
                      \o <<"/">> \o Numeral(net.prefix)
    /\ call.op = "reparse" =>
          /\ res.tag = "Ok"
          /\ eq(res.val, net)
          /\ ip(res.val) = ip(net)
          /\ prefix(res.val) = prefix(net)

C9_Witness ==
    /\ call.op = "reparse"
    /\ net = Ipv4Network(<<10, 1, 1, 1>>, 24)
    /\ call.par = <<"1", "0", ".", "1", ".", "1", ".", "1", "/", "2", "4">>
    /\ res = Ok(net)

\* The text s is a decimal integer, with or without a '+' in front.
IsIntegerText(s) ==
    LET d == IF s # <<>> /\ s[1] = "+" THEN Tail(s) ELSE s
    IN  d # <<>> /\ \A i \in 1..Len(d) : IsDigit(d[i])

RECURSIVE PlaceValue(_, _)
PlaceValue(d, i) ==
    IF i > Len(d) THEN 0
    ELSE DigitVal(d[i]) * (10 ^ (Len(d) - i)) + PlaceValue(d, i + 1)

\* The integer such a text stands for.
IntegerOf(s) == PlaceValue(IF s[1] = "+" THEN Tail(s) ELSE s, 1)

IsByteText(s) == IsIntegerText(s) /\ IntegerOf(s) <= 255

\* C10: from_cidr on an address part of segments separated by '.' fails
\* with InvalidAddr iff there are more than 4 segments or some segment is
\* not an integer in 0..255, whatever the prefix text is; otherwise the
\* k segments are the k most significant bytes of the address, in order,
\* and the other bytes are 0.  The error quotes the address part.
C10_AddressTextParsing ==
    (call.op = "from_cidr" /\ "segs" \in DOMAIN call.par) =>
        LET l == call.par.segs
            bad == Len(l) > 4 \/ \E i \in 1..Len(l) : ~IsByteText(l[i])
        IN  /\ bad = (res.tag = "Err" /\ res.err = "InvalidAddr")
            /\ bad => res.msg[2] = JoinDots(l)
            /\ ~bad => res.tag = "Ok" \/ res = Err("InvalidPrefix")
            /\ res.tag = "Ok" =>
                  /\ \A k \in 1..Len(l) : res.val.addr[k] = IntegerOf(l[k])
                  /\ \A k \in (Len(l) + 1)..4 : res.val.addr[k] = 0

C10_Witness ==
    /\ call.op = "from_cidr"
    /\ "segs" \in DOMAIN call.par
    /\ call.par.text = <<"1", "0", ".", "2", "5", "5", "/", "2", "4">>
    /\ res = Ok(Ipv4Network(<<10, 255, 0, 0>>, 24))

===========================================================================
